---- MODULE Spec2Model ----
(***************************************************************************)
(* Model of the live virtual linker of obsidian-virtual-linker:            *)
(*   src/linker/liveLinker.ts    AutoLinkerPlugin (variant "linker")       *)
(*   src/glossary/liveLinker.ts  AutoLinkerPlugin (variant "glossary")     *)
(* The prefix automaton, the word-boundary predicate and the cache live in *)
(* linkerCache.ts, which is not part of the sources at hand; they are      *)
(* modelled from sections 4.1, 4.2 and 5 of the specification.             *)
(*                                                                         *)
(* Offsets are 0-based code-unit offsets as in the TypeScript code; a text *)
(* is a sequence of code units, so the unit at offset i is text[i + 1].    *)
(***************************************************************************)
EXTENDS Integers, Sequences, FiniteSets, TLC

VARIABLES
    doc,            \* view.state.doc: the document, a sequence of code units
    cursor,         \* view.state.selection.main.from
    visibleRanges,  \* view.visibleRanges: sequence of [from, to]
    syntaxNodes,    \* syntaxTree(view.state): set of [from, to, type]
    activeView,     \* workspace: "this" view is the active one, an "other", or "none"
    vault,          \* the external note store: set of [text, file] entries
    settings,       \* the plugin settings record
    variant,        \* which of the two AutoLinkerPlugin classes runs
    decorations,    \* this.decorations: sequence of emitted spans
    lastCursorPos,  \* this.lastCursorPos
    lastActiveFile, \* this.lastActiveFile
    lastViewUpdate, \* this.lastViewUpdate is set (TRUE) or null (FALSE)
    mappedFile,     \* this.viewUpdateDomToFileMap.get(view.dom)
    cacheDict,      \* the dictionary the cache's automaton was built from
    pending,        \* the cache's pending external-update flag
    notifications,  \* history: change notifications since the last updateCache call
    last            \* history: what the last step did

vars == <<doc, cursor, visibleRanges, syntaxNodes, activeView, vault, settings,
          variant, decorations, lastCursorPos, lastActiveFile, lastViewUpdate,
          mappedFile, cacheDict, pending, notifications, last>>

envVars == <<doc, cursor, visibleRanges, syntaxNodes>>

(***************************************************************************)
(* Bounds and input domains                                                *)
(***************************************************************************)
MaxDocLen == 3
MaxLongDocLen == 4
MaxEntries == 3
MaxNotifications == 2

Letters == {"a", "b"}
BoundaryChars == {" ", "\n"}
Units == Letters \cup {" "}

ViewFile == "N.md"      \* the note shown by the modelled view
OtherFile == "M.md"     \* another note of the vault
Undefined == "undefined"
Files == {ViewFile, OtherFile}

Max(a, b) == IF a >= b THEN a ELSE b
Min(a, b) == IF a <= b THEN a ELSE b

SeqsUpTo(S, n) == UNION {[1..k -> S] : k \in 0..n}

\* text.slice(a, b) for 0 <= a <= b <= text.length
Slice(text, a, b) == SubSeq(text, a + 1, b)

(***************************************************************************)
(* Prefix automaton and cache lookups (linkerCache.ts), modelled from the  *)
(* specification, sections 4.1 and 4.2.  A trie node is identified by the  *)
(* text that leads to it from the root.                                    *)
(***************************************************************************)

HighSurrogates == {"H"}
LowSurrogates == {"L"}

\* Offset n of text does not fall between the two units of a surrogate pair.
IsCharEnd(text, n) ==
    ~(n < Len(text) /\ text[n] \in HighSurrogates /\ text[n + 1] \in LowSurrogates)

\* Word-boundary predicate: whitespace or punctuation (section 4.1).
checkWordBoundary(char) == Len(char) = 1 /\ char[1] \in BoundaryChars

\* Build: every non-empty prefix of an entry's text is a node of the trie.
\* Entries are inserted code point by code point, so no node ends between the
\* two units of a surrogate pair.
TrieNodes(dict) ==
    UNION {{SubSeq(e.text, 1, k) : k \in {n \in 1..Len(e.text) : IsCharEnd(e.text, n)}}
           : e \in dict}

\* The terminal marker of a node: the entities of the entries that end there.
TerminalFiles(dict, node) == {e.file : e \in {x \in dict : x.text = node}}

\* reset(): discard all ActiveCursors.
ResetAutomaton == [cursors |-> <<>>, offset |-> 0]

\* push(char): advance every existing cursor, dropping those without a child
\* for char, then start one new cursor at the current offset.
pushChar(aut, dict, char) ==
    LET nodes == TrieNodes(dict)
        alive == SelectSeq(aut.cursors, LAMBDA c : (c.node \o char) \in nodes)
        moved == [k \in 1..Len(alive) |->
                    [node |-> alive[k].node \o char, startOffset |-> alive[k].startOffset]]
        fresh == IF char \in nodes
                 THEN <<[node |-> char, startOffset |-> aut.offset]>>
                 ELSE <<>>
    IN [cursors |-> moved \o fresh, offset |-> aut.offset + Len(char)]

\* query(offset): one result per alive cursor whose node is terminal, in
\* cursor order.
QueryAutomaton(aut, dict, offset) ==
    LET term == SelectSeq(aut.cursors, LAMBDA c : TerminalFiles(dict, c.node) # {})
    IN [k \in 1..Len(term) |->
          [start |-> term[k].startOffset, end |-> offset,
           files |-> TerminalFiles(dict, term[k].node)]]

\* getCurrentMatchNodes(offset, excludeEntity): query(offset) without the
\* results whose entity set is empty once excludeEntity is removed.
getCurrentMatchNodes(aut, dict, offset, excludeEntity) ==
    LET res == QueryAutomaton(aut, dict, offset)
        cut == [k \in 1..Len(res) |->
                  [res[k] EXCEPT !.files = res[k].files \ {excludeEntity}]]
    IN SelectSeq(cut, LAMBDA r : r.files # {})

\* Entity ambiguity: the first inserted entity wins; the store enumerates the
\* view's own note first.
FirstFile(files) == IF ViewFile \in files THEN ViewFile ELSE OtherFile

(***************************************************************************)
(* The candidate scanner: the character loop of buildDecorations.          *)
(***************************************************************************)
\* Mutant of CharAt: the code unit at i, as text[i] would give it.
CharAtUnit(text, i) == <<text[i + 1]>>

\* String.fromCodePoint(text.codePointAt(i)): a surrogate pair is one char of
\* two code units, anything else (a lone surrogate included) one unit.
CharAt(text, i) ==
    IF /\ i + 2 <= Len(text)
       /\ text[i + 1] \in HighSurrogates
       /\ text[i + 2] \in LowSurrogates
    THEN <<text[i + 1], text[i + 2]>>
    ELSE <<text[i + 1]>>

\* Mutant of MakeAddition: the window's base offset is not added.
MakeAdditionWindowRelative(id, from, node, isWordBoundary) ==
    [id |-> id, from |-> node.start, to |-> node.end,
     file |-> FirstFile(node.files), isSubWord |-> ~isWordBoundary]

\* additions.push({...}) for the first match node of a position.
MakeAddition(id, from, node, isWordBoundary) ==
    [id |-> id, from |-> from + node.start, to |-> from + node.end,
     file |-> FirstFile(node.files), isSubWord |-> ~isWordBoundary]

\* Mutant of ScanDone: the loop stops at i = text.length, without the
\* iteration on the synthetic newline.
ScanDoneAtLength(text, i) == i >= Len(text)

\* The loop "for (let i = 0; i <= text.length; i)" is over.
ScanDone(text, i) == ~(i <= Len(text))

\* Mutant of FirstNode: the last result of the query is taken.
LastNode(currentNodes) == currentNodes[Len(currentNodes)]

\* "const node = currentNodes[0]"
FirstNode(currentNodes) == currentNodes[1]

\* "const char = i < text.length ? String.fromCodePoint(codePoint) : '\n'"
LoopChar(text, i) == IF i < Len(text) THEN CharAt(text, i) ELSE <<"\n">>

\* "i += char.length"
NextIndex(i, char) == i + Len(char)

\* The iterations of the loop from index i on: the index and the width of the
\* character of each.
RECURSIVE ScanSteps(_, _)
ScanSteps(text, i) ==
    IF ScanDone(text, i) THEN <<>>
    ELSE LET char == LoopChar(text, i)
         IN <<[index |-> i, width |-> Len(char)]>>
            \o ScanSteps(text, NextIndex(i, char))

RECURSIVE ScanLoop(_, _, _, _, _, _, _, _)
ScanLoop(text, from, dict, wholeWords, excludeEntity, i, aut, additions) ==
    IF ScanDone(text, i) THEN additions
    ELSE
      LET char == LoopChar(text, i)
          isWordBoundary == checkWordBoundary(char)
          currentNodes == IF ~wholeWords \/ isWordBoundary
                          THEN getCurrentMatchNodes(aut, dict, i, excludeEntity)
                          ELSE <<>>
          added == IF Len(currentNodes) > 0
                   THEN Append(additions,
                               MakeAddition(Len(additions), from, FirstNode(currentNodes),
                                            isWordBoundary))
                   ELSE additions
          pushed == pushChar(aut, dict, char)
      \* The test only makes TLC compute the state of the loop before it enters
      \* the next iteration; it is always true.
      IN IF Len(added) >= 0 /\ pushed.offset > i
         THEN ScanLoop(text, from, dict, wholeWords, excludeEntity,
                       NextIndex(i, char), pushed, added)
         ELSE added

\* The raw candidates of one visible range [from, to] of the document.
Additions(text, from, dict, wholeWords, excludeEntity) ==
    ScanLoop(text, from, dict, wholeWords, excludeEntity, 0, ResetAutomaton, <<>>)

(***************************************************************************)
(* The overlap resolver of buildDecorations.                               *)
(***************************************************************************)

\* Mutant of SortBefore: at equal starts the shorter addition comes first.
SortBeforeShorterFirst(a, b) ==
    IF a.from = b.from THEN a.to < b.to ELSE a.from < b.from

\* The comparator of additions.sort: from ascending, then to descending.
SortBefore(a, b) == IF a.from = b.from THEN a.to > b.to ELSE a.from < b.from

RECURSIVE InsertSorted(_, _)
InsertSorted(sorted, x) ==
    IF sorted = <<>> THEN <<x>>
    ELSE IF SortBefore(x, Head(sorted)) THEN <<x>> \o sorted
    ELSE <<Head(sorted)>> \o InsertSorted(Tail(sorted), x)

\* additions.sort(...): a stable sort.
RECURSIVE SortAdditions(_)
SortAdditions(additions) ==
    IF additions = <<>> THEN <<>>
    ELSE InsertSorted(SortAdditions(SubSeq(additions, 1, Len(additions) - 1)),
                      additions[Len(additions)])

\* Mutant of AdditionsToDelete: the inner loop compares with addition.from
\* instead of addition.to, so it stops at once and marks nothing.
AdditionsToDeleteComparesFrom(additions) ==
    {additions[j].id : j \in {j \in 1..Len(additions) :
        \E i \in 1..(j - 1) :
            \A k \in (i + 1)..j : additions[k].from < additions[i].from}}

\* The ids the double loop puts into additionsToDelete: for every i the inner
\* loop walks j = i + 1, i + 2, ... and stops at the first j whose from is not
\* below additions[i].to; every j it passes is marked.
AdditionsToDelete(additions) ==
    {additions[j].id : j \in {j \in 1..Len(additions) :
        \E i \in 1..(j - 1) :
            \A k \in (i + 1)..j : additions[k].from < additions[i].to}}

\* filteredAdditions: the sorted additions that were not marked.
FilteredAdditions(additions) ==
    LET sorted == SortAdditions(additions)
        marked == AdditionsToDelete(sorted)
    IN SelectSeq(sorted, LAMBDA a : a.id \notin marked)

(***************************************************************************)
(* The exclusion filter of buildDecorations.                               *)
(***************************************************************************)
NodeTypes == {"hmd-codeblock", "hmd-internal-link", "link", "header-1"}

\* type.contains(excludedType) for the type names of the model.
TypeContains(type, excludedType) ==
    \/ type = "hmd-codeblock" /\ excludedType = "codeblock"
    \/ type = "hmd-internal-link" /\ excludedType \in {"internal-link", "link"}
    \/ type = "link" /\ excludedType = "link"
    \/ type = "header-1" /\ excludedType = "header-"

\* The excludedTypes list of the pass.
ExcludedTypes(cfg) ==
    IF cfg.variant = "glossary"
    THEN {"codeblock", "code-block", "internal-link"}
    ELSE {"codeblock", "code-block", "internal-link", "link"}
         \cup (IF cfg.includeHeaders THEN {} ELSE {"header-"})

\* syntaxTree(view.state).iterate({from, to, enter}): the visited nodes are
\* those that touch [from, to]; the matching ones go into the interval tree.
ExcludedIntervals(nodes, from, to, cfg) ==
    {[from |-> n.from, to |-> n.to] :
        n \in {m \in nodes : /\ m.from <= to /\ m.to >= from
                             /\ \E t \in ExcludedTypes(cfg) : TypeContains(m.type, t)}}

\* Mutant of SearchIntervals: only intervals inside [from, to] are found.
SearchIntervalsInside(tree, from, to) == {iv \in tree : from <= iv.from /\ iv.to <= to}

\* excludedIntervalTree.search([from, to]): closed intervals intersect.
SearchIntervals(tree, from, to) == {iv \in tree : ~(iv.to < from \/ to < iv.from)}

\* view.state.doc.lineAt(pos): the line around pos, without its line break.
LineStart(text, pos) ==
    CHOOSE k \in 0..pos :
        /\ k = 0 \/ text[k] = "\n"
        /\ \A m \in (k + 1)..pos : text[m] # "\n"
LineEnd(text, pos) ==
    CHOOSE k \in pos..Len(text) :
        /\ k = Len(text) \/ text[k + 1] = "\n"
        /\ \A m \in pos..(k - 1) : text[m + 1] # "\n"

\* view.state.doc.sliceString(from, to)
WindowText(text, from, to) == Slice(text, from, to)

\* Mutant of CursorNearby: the ends of the span are not included.
CursorNearbyExclusive(cursorPos, from, to) == cursorPos > from /\ cursorPos < to

\* cursorNearby: the cursor lies within [from, to], both ends included.
CursorNearby(cursorPos, from, to) == cursorPos >= from /\ cursorPos <= to

\* Mutant of RangeDecorations: the exclusion filter runs on the raw additions
\* and overlap resolution on what the filter left.
RangeDecorationsFilterFirst(text, range, nodes, cursorPos, dict, cfg, mapped, viewIsActive) ==
    LET from == range.from
        to == range.to
        excludeEntity == IF cfg.excludeLinksToOwnNote THEN mapped ELSE Undefined
        additions == Additions(WindowText(text, from, to), from, dict,
                               cfg.matchOnlyWholeWords, excludeEntity)
        tree == ExcludedIntervals(nodes, from, to, cfg)
        excludeLine == viewIsActive /\ cfg.excludeLinksInCurrentLine
        lineStart == LineStart(text, cursorPos)
        lineEnd == LineEnd(text, cursorPos)
        Emit(a) ==
            /\ SearchIntervals(tree, a.from, a.to) = {}
            /\ ~CursorNearby(cursorPos, a.from, a.to)
            /\ (~excludeLine \/ ~(a.from >= lineStart /\ a.to <= lineEnd))
        emitted == FilteredAdditions(SelectSeq(additions, Emit))
    IN [k \in 1..Len(emitted) |->
          [from |-> emitted[k].from, to |-> emitted[k].to,
           file |-> emitted[k].file, isSubWord |-> emitted[k].isSubWord]]

\* One iteration of "for (let { from, to } of view.visibleRanges)": the spans
\* that the builder receives for the range, in the order of the builder.add calls.
RangeDecorations(text, range, nodes, cursorPos, dict, cfg, mapped, viewIsActive) ==
    LET from == range.from
        to == range.to
        excludeEntity == IF cfg.excludeLinksToOwnNote THEN mapped ELSE Undefined
        additions == Additions(WindowText(text, from, to), from, dict,
                               cfg.matchOnlyWholeWords, excludeEntity)
        filteredAdditions == FilteredAdditions(additions)
        tree == ExcludedIntervals(nodes, from, to, cfg)
        excludeLine == viewIsActive /\ cfg.excludeLinksInCurrentLine
        lineStart == LineStart(text, cursorPos)
        lineEnd == LineEnd(text, cursorPos)
        Emit(a) ==
            LET overlaps == SearchIntervals(tree, a.from, a.to)
                cursorNearby == CursorNearby(cursorPos, a.from, a.to)
                additionIsInCurrentLine == a.from >= lineStart /\ a.to <= lineEnd
            IN overlaps = {} /\ ~cursorNearby
               /\ (~excludeLine \/ ~additionIsInCurrentLine)
        emitted == SelectSeq(filteredAdditions, Emit)
    IN [k \in 1..Len(emitted) |->
          [from |-> emitted[k].from, to |-> emitted[k].to,
           file |-> emitted[k].file, isSubWord |-> emitted[k].isSubWord]]

RECURSIVE BuildRanges(_, _, _, _, _, _, _, _)
BuildRanges(text, ranges, nodes, cursorPos, dict, cfg, mapped, viewIsActive) ==
    IF ranges = <<>> THEN <<>>
    ELSE RangeDecorations(text, Head(ranges), nodes, cursorPos, dict, cfg, mapped,
                          viewIsActive)
         \o BuildRanges(text, Tail(ranges), nodes, cursorPos, dict, cfg, mapped,
                        viewIsActive)

\* buildDecorations(view, viewIsActive): builder.finish() as the sequence of
\* the added spans.
buildDecorations(text, ranges, nodes, cursorPos, dict, cfg, mapped, viewIsActive) ==
    BuildRanges(text, ranges, nodes, cursorPos, dict, cfg, mapped, viewIsActive)

\* The settings a pass works with.  The glossary class always queries at word
\* boundaries only, passes no note to exclude and has no current-line rule.
EffectiveSettings(v, st) ==
    IF v = "glossary"
    THEN [variant |-> v, matchOnlyWholeWords |-> TRUE,
          excludeLinksToOwnNote |-> FALSE, excludeLinksInCurrentLine |-> FALSE,
          includeHeaders |-> TRUE]
    ELSE [variant |-> v, matchOnlyWholeWords |-> st.matchOnlyWholeWords,
          excludeLinksToOwnNote |-> st.excludeLinksToOwnNote,
          excludeLinksInCurrentLine |-> st.excludeLinksInCurrentLine,
          includeHeaders |-> st.includeHeaders]

Cfg == EffectiveSettings(variant, settings)

(***************************************************************************)
(* The cache (linkerCache.ts), modelled from sections 4.2 and 5 of the     *)
(* specification: updateCache(force) rebuilds the dictionary from the      *)
(* store when the pending flag is set or force is true, and clears the     *)
(* flag; otherwise it does nothing.                                        *)
(***************************************************************************)
CacheRebuilds(force, flag) == flag \/ force

\* Mutant of updateCache: the automaton is emptied before the flag is tested,
\* so a call that does not rebuild leaves an empty dictionary.
updateCacheClearsFirst(force, cache, store) ==
    IF CacheRebuilds(force, cache.pending)
    THEN [dict |-> store, pending |-> FALSE, rebuilt |-> TRUE]
    ELSE [dict |-> {}, pending |-> cache.pending, rebuilt |-> FALSE]

\* updateCache(force) on the cache [dict, pending] with the store at hand.
updateCache(force, cache, store) ==
    IF CacheRebuilds(force, cache.pending)
    THEN [dict |-> store, pending |-> FALSE, rebuilt |-> TRUE]
    ELSE [dict |-> cache.dict, pending |-> cache.pending, rebuilt |-> FALSE]

(***************************************************************************)
(* The host: views, workspace and store                                    *)
(***************************************************************************)
\* view.visibleRanges with one range: any non-empty window of the document,
\* or the empty window at its start.
RangesOf(d) ==
    {<<x>> : x \in {y \in [from : 0..Len(d), to : 0..Len(d)] :
                       y.from < y.to \/ (y.from = 0 /\ y.to = 0)}}

\* syntaxTree(view.state): no node of interest, or one.
NodesOf(d) ==
    {{}} \cup
    {{x} : x \in {y \in [from : 0..Len(d), to : 0..Len(d), type : NodeTypes] :
                     y.from < y.to}}

\* app.workspace.getActiveFile()?.path
ActiveFilePath(av) ==
    IF av = "this" THEN ViewFile ELSE IF av = "other" THEN OtherFile ELSE Undefined

SettingsSet ==
    [matchOnlyWholeWords : BOOLEAN, excludeLinksToOwnNote : BOOLEAN,
     excludeLinksInCurrentLine : BOOLEAN, includeHeaders : BOOLEAN]

NoSettings ==
    [matchOnlyWholeWords |-> TRUE, excludeLinksToOwnNote |-> FALSE,
     excludeLinksInCurrentLine |-> FALSE, includeHeaders |-> TRUE]

Variants == {"linker", "glossary"}

(***************************************************************************)
(* AutoLinkerPlugin                                                        *)
(***************************************************************************)

\* Reading the state back.
RangeSet == {visibleRanges[k] : k \in 1..Len(visibleRanges)}
Emitted == {decorations[k] : k \in 1..Len(decorations)}
SeqSet(q) == {q[k] : k \in 1..Len(q)}

PassEntity == IF Cfg.excludeLinksToOwnNote THEN mappedFile ELSE Undefined

\* The raw candidates and the survivors of overlap resolution for a range.
RawCandidates(range) ==
    Additions(Slice(doc, range.from, range.to), range.from, cacheDict,
              Cfg.matchOnlyWholeWords, PassEntity)
Resolved(range) == FilteredAdditions(RawCandidates(range))

\* The spans that survive overlap resolution in the current state and that
\* the cursor rule drops.
SuppressedByCursor ==
    {[from |-> a.from, to |-> a.to] :
        a \in {x \in UNION {SeqSet(Resolved(r)) : r \in RangeSet} :
                 x.from <= cursor /\ cursor <= x.to}}

\* The record of a step that ran no update().
Did(op) == [op |-> op, force |-> FALSE, ran |-> op = "constructor",
               rebuilt |-> op = "constructor", suppressed |-> {}, notified |-> 0]

\* The state after "new AutoLinkerPlugin(view, ...)": the fields' initial
\* values, a cache built from the store, and the decorations of a first
\* buildDecorations(view) pass with viewIsActive defaulted to true.
Constructed(d, c, r, n, av, vlt, st, v) ==
    /\ doc = d /\ cursor = c /\ visibleRanges = r /\ syntaxNodes = n
    /\ activeView = av /\ vault = vlt /\ settings = st /\ variant = v
    /\ lastCursorPos = 0
    /\ lastActiveFile = ""
    /\ lastViewUpdate = FALSE
    /\ mappedFile = Undefined
    /\ cacheDict = vlt
    /\ pending = FALSE
    /\ decorations = buildDecorations(d, r, n, c, vlt, EffectiveSettings(v, st),
                                      Undefined, TRUE)
    /\ notifications = 0
    /\ last = Did("constructor")

\* Mutant of UpdateGate: a moved cursor alone does not re-run the pipeline.
UpdateGateIgnoresCursor(force, cursorMoved, docChanged, fileChanged, viewportChanged) ==
    force \/ docChanged \/ fileChanged \/ viewportChanged

\* Mutant of UpdateGate: a changed viewport alone does not re-run the pipeline.
UpdateGateIgnoresViewport(force, cursorMoved, docChanged, fileChanged, viewportChanged) ==
    force \/ cursorMoved \/ docChanged \/ fileChanged

\* The condition under which update() re-runs the pipeline.
UpdateGate(force, cursorMoved, docChanged, fileChanged, viewportChanged) ==
    force \/ cursorMoved \/ docChanged \/ fileChanged \/ viewportChanged

\* Mutant of CallUpdateCache: update() goes on to scan without calling
\* updateCache.
CallUpdateCacheSkipped(force, cache, store) ==
    [dict |-> cache.dict, pending |-> cache.pending, rebuilt |-> FALSE]

\* Mutant of CallUpdateCache: update() always asks for a forced rebuild.
CallUpdateCacheForced(force, cache, store) == updateCache(TRUE, cache, store)

\* "this.linkerCache.updateCache(force)" as update() calls it.
CallUpdateCache(force, cache, store) == updateCache(force, cache, store)

\* update(update, force) with the view in state (d, c, r, n).
update(d, c, r, n, docChanged, viewportChanged, force, op) ==
    LET cfg == Cfg
        updateIsOnActiveView ==
            /\ variant = "linker"
            /\ settings.excludeLinksInCurrentLine \/ settings.excludeLinksToOwnNote
            /\ activeView = "this"
        mapped == IF updateIsOnActiveView THEN ViewFile ELSE mappedFile
        activeFile == ActiveFilePath(activeView)
        fileChanged == activeFile # lastActiveFile
        gate == UpdateGate(force, lastCursorPos # c, docChanged, fileChanged,
                           viewportChanged)
        cache == CallUpdateCache(force, [dict |-> cacheDict, pending |-> pending],
                                 vault)
    IN /\ mappedFile' = mapped
       /\ IF gate
          THEN /\ lastCursorPos' = c
               /\ cacheDict' = cache.dict
               /\ pending' = cache.pending
               /\ notifications' = 0
               /\ decorations' = buildDecorations(d, r, n, c, cache.dict, cfg, mapped,
                                                  IF variant = "linker"
                                                  THEN updateIsOnActiveView ELSE TRUE)
               /\ lastActiveFile' = IF activeFile = Undefined THEN "" ELSE activeFile
          ELSE UNCHANGED <<lastCursorPos, cacheDict, pending, notifications,
                           decorations, lastActiveFile>>
       /\ lastViewUpdate' = (variant = "linker")
       /\ last' = [op |-> op, force |-> force, ran |-> gate,
                   rebuilt |-> gate /\ cache.rebuilt,
                   suppressed |-> SuppressedByCursor,
                   notified |-> notifications]

\* The editor dispatches a view update: the view is now in state w with the
\* selection at c, and update(update) runs.
ViewUpdate(W) ==
    \E w \in W :
      \E c \in 0..Len(w.doc) :
        /\ doc' = w.doc /\ cursor' = c
        /\ visibleRanges' = w.ranges /\ syntaxNodes' = w.nodes
        /\ update(w.doc, c, w.ranges, w.nodes, w.doc # doc, w.ranges # visibleRanges,
                  FALSE, "update")
        /\ UNCHANGED <<activeView, vault, settings, variant>>

\* An update that changes nothing in the view (focus, geometry).
Rescan ==
    /\ update(doc, cursor, visibleRanges, syntaxNodes, FALSE, FALSE, FALSE, "update")
    /\ UNCHANGED <<envVars, activeView, vault, settings, variant>>

\* The update manager runs the callback registered in the constructor:
\* "if (this.lastViewUpdate) this.update(this.lastViewUpdate, true)".  The
\* stored update carries the live view, so the pass reads the current state.
ForcedRefresh ==
    /\ variant = "linker"
    /\ IF lastViewUpdate
       THEN update(doc, cursor, visibleRanges, syntaxNodes, FALSE, FALSE, TRUE, "callback")
       ELSE /\ last' = Did("callback")
            /\ UNCHANGED <<decorations, lastCursorPos, lastActiveFile, lastViewUpdate,
                           mappedFile, cacheDict, pending, notifications>>
    /\ UNCHANGED <<envVars, activeView, vault, settings, variant>>

\* The store changes and notifies the cache, which sets its pending flag.
ExternalChange(V) ==
    \E vlt \in V \ {vault} :
        /\ notifications < MaxNotifications
        /\ vault' = vlt
        /\ pending' = TRUE
        /\ notifications' = notifications + 1
        /\ last' = Did("external")
        /\ UNCHANGED <<envVars, activeView, settings, variant, decorations,
                       lastCursorPos, lastActiveFile, lastViewUpdate, mappedFile,
                       cacheDict>>

\* The user activates another pane (or none).
WorkspaceChange ==
    \E av \in {"this", "other", "none"} \ {activeView} :
        /\ activeView' = av
        /\ last' = Did("workspace")
        /\ UNCHANGED <<envVars, vault, settings, variant, decorations, lastCursorPos,
                       lastActiveFile, lastViewUpdate, mappedFile, cacheDict, pending,
                       notifications>>

(***************************************************************************)
(* SpecScan: one plugin constructed over every view, store and             *)
(* configuration within the bounds, followed by update() passes over the   *)
(* same view.                                                              *)
(***************************************************************************)
Docs == SeqsUpTo(Units, MaxDocLen)
LongDocs == SeqsUpTo(Units, MaxLongDocLen) \ Docs
Patterns == {<<"a">>, <<"b">>, <<"a", "b">>, <<"b", "a">>}
Vaults == {v \in SUBSET [text : Patterns, file : {OtherFile}] :
              Cardinality(v) <= MaxEntries}
OwnVaults ==
    {{[text |-> <<"a">>, file |-> ViewFile]},
     {[text |-> <<"a">>, file |-> ViewFile], [text |-> <<"a">>, file |-> OtherFile]}}
FilterDocs == SeqsUpTo({"a", "\n"}, MaxDocLen)

MatchSettings ==
    {st \in SettingsSet : /\ ~st.excludeLinksToOwnNote
                          /\ ~st.excludeLinksInCurrentLine /\ ~st.includeHeaders}
FilterSettings == {st \in SettingsSet : ~st.matchOnlyWholeWords}

SettingsOf(v, S) == IF v = "linker" THEN S ELSE {NoSettings}

\* Matching: every text, window and dictionary, in both matching modes of the
\* linker class (without syntax nodes the glossary class scans as the linker
\* class does in whole-word mode); the cursor is at the end of the document.
InitMatching ==
    \E d \in Docs, vlt \in Vaults :
      \E r \in RangesOf(d), st \in MatchSettings :
        Constructed(d, Len(d), r, {}, "this", vlt, st, "linker")

\* Filtering: every syntax node, cursor, workspace and exclusion setting; the
\* own-note setting and the inactive view are taken without syntax nodes.
InitFiltering ==
    \E d \in FilterDocs, vlt \in OwnVaults, v \in Variants, av \in {"this", "other"} :
      \E c \in 0..Len(d), n \in NodesOf(d), st \in SettingsOf(v, FilterSettings) :
        /\ n = {} \/ (av = "this" /\ ~st.excludeLinksToOwnNote)
        /\ Constructed(d, c, <<[from |-> 0, to |-> Len(d)]>>, n, av, vlt, st, v)

\* Longer texts, seen whole or as two windows around a hidden middle, so that
\* several spans survive the cursor rule in one pass.
LongRangesOf(d) ==
    {<<[from |-> 0, to |-> Len(d)]>>}
    \cup (IF Len(d) >= 4
          THEN {<<[from |-> 0, to |-> 2], [from |-> 3, to |-> Len(d)]>>}
          ELSE {})

InitLong ==
    \E d \in LongDocs, vlt \in Vaults :
      \E c \in {0, Len(d)}, r \in LongRangesOf(d), st \in MatchSettings :
        Constructed(d, c, r, {}, "this", vlt, st, "linker")

\* Texts with surrogates, paired and lone; a window may cut a pair in two.
\* The cursor is at the end of the document.
SurrogateDocs == SeqsUpTo({"a"} \cup HighSurrogates \cup LowSurrogates, MaxDocLen)
SurrogatePatterns == {<<"a">>, <<"H", "L">>, <<"a", "H", "L">>}
SurrogateVaults == SUBSET [text : SurrogatePatterns, file : {OtherFile}]

InitSurrogates ==
    \E d \in SurrogateDocs, vlt \in SurrogateVaults :
      \E r \in RangesOf(d), st \in MatchSettings :
        Constructed(d, Len(d), r, {}, "this", vlt, st, "linker")

InitScan == InitMatching \/ InitLong \/ InitFiltering \/ InitSurrogates

NextScan == Rescan

SpecScan == InitScan /\ [][NextScan]_vars

(***************************************************************************)
(* Spec: the life of one plugin instance: view updates, forced refreshes,  *)
(* store changes and workspace changes in any order.                       *)
(***************************************************************************)
FullView(d, n) == [doc |-> d, ranges |-> <<[from |-> 0, to |-> Len(d)]>>, nodes |-> n]
LifeViews ==
    {FullView(<<"a", "\n", "b">>, {}),
     FullView(<<"a", " ", "b">>, {}),
     FullView(<<"a", " ", "b">>, {[from |-> 0, to |-> 1, type |-> "hmd-codeblock"]}),
     [doc |-> <<"a", " ", "b">>, ranges |-> <<[from |-> 0, to |-> 1]>>, nodes |-> {}]}
LifeVaults ==
    {{[text |-> <<"a">>, file |-> ViewFile]},
     {[text |-> <<"a">>, file |-> ViewFile], [text |-> <<"b">>, file |-> OtherFile]}}
LifeSettings ==
    {st \in SettingsSet : ~st.matchOnlyWholeWords /\ ~st.includeHeaders}

Init ==
    \E w \in LifeViews, vlt \in LifeVaults, v \in Variants,
       av \in {"this", "other", "none"} :
      \E c \in 0..Len(w.doc), st \in SettingsOf(v, LifeSettings) :
        Constructed(w.doc, c, w.ranges, w.nodes, av, vlt, st, v)

Next ==
    \/ ViewUpdate(LifeViews)
    \/ ForcedRefresh
    \/ ExternalChange(LifeVaults)
    \/ WorkspaceChange

Spec == Init /\ [][Next]_vars

(***************************************************************************)
(* What the last pass worked on, read back from the state                  *)
(***************************************************************************)
SharesChar(a, b) == a.from < b.to /\ b.from < a.to

(***************************************************************************)
(* Claims                                                                  *)
(***************************************************************************)

\* C1: the spans emitted by one buildDecorations pass are pairwise
\* non-overlapping (a later span starts at or after the end of every earlier
\* one) and are emitted in ascending order of from.
NonOverlappingAscending ==
    \A i, j \in 1..Len(decorations) :
        i < j => /\ decorations[j].from >= decorations[i].to
                 /\ decorations[i].from <= decorations[j].from

\* Witness of C1: a pass that emitted two spans from a range whose raw
\* candidates overlapped, so that overlap resolution dropped one.
OverlapResolvedWitness ==
    /\ last.ran
    /\ Len(decorations) >= 2
    /\ \E r \in RangeSet :
         /\ Len(Resolved(r)) < Len(RawCandidates(r))
         /\ \E x, y \in Emitted : x # y /\ x.from >= r.from /\ y.to <= r.to

\* C2: every emitted span is non-empty and the text of the document between
\* its from and its to is exactly the text of a dictionary entry.
SpanTextIsEntry ==
    \A s \in Emitted :
        /\ s.to > s.from
        /\ \E e \in cacheDict : Slice(doc, s.from, s.to) = e.text

\* Witness of C2: a span emitted from a window that does not start at the
\* beginning of the document.
WindowSpanWitness ==
    /\ last.ran
    /\ \E s \in Emitted : \E r \in RangeSet : r.from > 0 /\ s.from >= r.from

\* The structural exclusion zones of a pass: the syntax nodes whose type is one
\* that the running class excludes.
IsExclusionZone(n) ==
    \/ n.type \in {"hmd-codeblock", "hmd-internal-link"}
    \/ variant = "linker" /\ n.type = "link"
    \/ variant = "linker" /\ ~settings.includeHeaders /\ n.type = "header-1"

\* The zones C5 lists: code blocks, links, internal links, and headings
\* unless includeHeaders is set.
IsListedZone(n) ==
    \/ n.type \in {"hmd-codeblock", "hmd-internal-link", "link"}
    \/ ~settings.includeHeaders /\ n.type = "header-1"

NoSpanAtCursor ==
    \A s \in Emitted : ~(s.from <= cursor /\ cursor <= s.to)

\* Witness of C6: a survivor of overlap resolution ends exactly at the cursor,
\* lies on no excluded node and is missing from the emitted spans.
CursorSuppressedWitness ==
    /\ last.ran
    /\ \E r \in RangeSet : \E a \in SeqSet(Resolved(r)) :
         /\ cursor = a.to
         /\ \A n \in syntaxNodes : ~IsExclusionZone(n)
         /\ ~Cfg.excludeLinksInCurrentLine
         /\ \A s \in Emitted : s.from # a.from

\* A dictionary entry matches the document at [f, t) of range r: the text is
\* the entry's, the entry does not resolve to the excluded note only, and in
\* whole-word mode the position after it is a query position.
BoundaryAfter(r, t) == t = r.to \/ doc[t + 1] \in BoundaryChars
IsMatch(r, f, t) ==
    /\ r.from <= f /\ f < t /\ t <= r.to
    /\ \E e \in cacheDict : e.text = Slice(doc, f, t) /\ e.file # PassEntity
    /\ Cfg.matchOnlyWholeWords => BoundaryAfter(r, t)
Kept(r, f, t) == \E a \in SeqSet(Resolved(r)) : a.from = f /\ a.to = t
Offsets == 0..Len(doc)

\* The example of the claim: dictionary {"Note", "Notebook"} on the text
\* "I love my Notebook today".
NotebookText ==
    <<"I", " ", "l", "o", "v", "e", " ", "m", "y", " ", "N", "o", "t", "e", "b",
      "o", "o", "k", " ", "t", "o", "d", "a", "y">>
NotebookDict ==
    {[text |-> <<"N", "o", "t", "e">>, file |-> OtherFile],
     [text |-> <<"N", "o", "t", "e", "b", "o", "o", "k">>, file |-> OtherFile]}
NotebookSpans(wholeWords) ==
    FilteredAdditions(Additions(NotebookText, 0, NotebookDict, wholeWords, Undefined))
NotebookExample ==
    \A wholeWords \in BOOLEAN :
        /\ Len(NotebookSpans(wholeWords)) = 1
        /\ NotebookSpans(wholeWords)[1].from = 10
        /\ NotebookSpans(wholeWords)[1].to = 18

\* C3 as stated: when an entry and a longer entry that it is a prefix of both
\* match at the same start offset, the longer span is kept by overlap
\* resolution and the shorter one is not; the Notebook example yields exactly
\* the span of "Notebook" in both modes.
LongestMatchKept ==
    /\ NotebookExample
    /\ \A r \in RangeSet : \A f, t1, t2 \in Offsets :
         (t1 < t2 /\ IsMatch(r, f, t1) /\ IsMatch(r, f, t2))
             => Kept(r, f, t2) /\ ~Kept(r, f, t1)

\* Another match covers the start f of a span that ends at t: it starts
\* earlier and reaches beyond f, or starts at f and is longer still.
Overshadowed(r, f, t) ==
    \E g, h \in Offsets :
        /\ IsMatch(r, g, h)
        /\ (g < f /\ h > f) \/ (g = f /\ h > t)

\* C3 as amended: the shorter span is never kept, and the longer span is kept
\* unless a match that starts earlier overlaps it or a still longer match starts
\* at the same offset; the Notebook example yields exactly the span of
\* "Notebook" in both modes.
LongestMatchKeptUnlessOvershadowed ==
    /\ NotebookExample
    /\ \A r \in RangeSet : \A f, t1, t2 \in Offsets :
         (t1 < t2 /\ IsMatch(r, f, t1) /\ IsMatch(r, f, t2))
             => /\ ~Kept(r, f, t1)
                /\ ~Overshadowed(r, f, t2) => Kept(r, f, t2)

\* Witness of C3: an entry and a longer entry match at the same offset in
\* sub-word mode, and of the two only the longer span is kept.
PrefixPairWitness ==
    /\ last.ran /\ ~Cfg.matchOnlyWholeWords
    /\ \E r \in RangeSet : \E f, t1, t2 \in Offsets :
         /\ t1 < t2 /\ IsMatch(r, f, t1) /\ IsMatch(r, f, t2)
         /\ Kept(r, f, t2) /\ ~Kept(r, f, t1)

\* C4 as stated: in whole-word mode the character before an emitted span (when
\* there is one) and the character after it (when there is one) are
\* word-boundary characters.
WholeWordSpansBounded ==
    Cfg.matchOnlyWholeWords =>
        \A s \in Emitted :
            /\ s.from > 0 => doc[s.from] \in BoundaryChars
            /\ s.to < Len(doc) => doc[s.to + 1] \in BoundaryChars

\* C7 as stated: with excludeLinksToOwnNote enabled, no span of any decoration
\* set the plugin holds for the view of note N resolves to N itself.
SelfReferenceExcluded ==
    Cfg.excludeLinksToOwnNote => \A s \in Emitted : s.file # ViewFile

Touches(a, b) == ~(b.to < a.from \/ a.to < b.from)
EmittedAt(f, t) == \E s \in Emitted : s.from = f /\ s.to = t

\* The span [f, t) is a survivor of overlap resolution to which neither the
\* structural rule nor the current-line rule applies.
NoOtherExclusion(f, t) ==
    /\ \A n \in syntaxNodes :
         IsExclusionZone(n) => ~Touches([from |-> f, to |-> t], n)
    /\ ~(/\ Cfg.excludeLinksInCurrentLine /\ activeView = "this"
         /\ f >= LineStart(doc, cursor) /\ t <= LineEnd(doc, cursor))
    /\ \E r \in RangeSet : Kept(r, f, t)

\* C8: when a span is suppressed because the cursor is inside it and a view
\* update moves the cursor to one character past the span's end, the span is
\* emitted by the update() call of that view update, provided no other
\* exclusion rule applies to it.
SpanReappearsAfterCursorLeaves ==
    last.op = "update" =>
        \A s \in last.suppressed :
            (cursor = s.to + 1 /\ NoOtherExclusion(s.from, s.to))
                => EmittedAt(s.from, s.to)

\* Witness of C8: an update() has just emitted a span that the cursor rule
\* dropped before the update; the cursor is one character past its end now.
CursorLeftSpanWitness ==
    /\ last.op = "update" /\ last.ran
    /\ \E s \in last.suppressed :
         /\ cursor = s.to + 1
         /\ NoOtherExclusion(s.from, s.to)
         /\ EmittedAt(s.from, s.to)

\* C9 as stated: whenever the callback registered with the update manager has
\* fired, the cache has been updated with force = true and the decorations
\* have been rebuilt, also when no update() call has been received yet.
ForcedRefreshRerunsPipeline ==
    last.op = "callback" =>
        /\ last.ran /\ last.rebuilt
        /\ cacheDict = vault /\ ~pending

\* C10: change notifications only set the pending flag; an updateCache call
\* clears it and rebuilds once when it was set; an updateCache(false) call
\* that finds no pending flag rebuilds nothing.
NotificationsCoalesced ==
    [][/\ last'.op = "external" =>
            pending' /\ cacheDict' = cacheDict /\ decorations' = decorations
       /\ (last'.op \in {"update", "callback"} /\ last'.ran) =>
            /\ ~pending'
            /\ pending => last'.rebuilt /\ cacheDict' = vault
            /\ (~pending /\ ~last'.force) => ~last'.rebuilt /\ cacheDict' = cacheDict
      ]_vars

\* Witness of C10: one unforced update() has just consumed the flag set by two
\* notifications with a single rebuild.
BurstConsumedWitness ==
    /\ last.op = "update" /\ last.ran /\ ~last.force
    /\ last.notified >= 2
    /\ last.rebuilt /\ ~pending /\ cacheDict = vault

\* viewIsActive as the last pass received it: the constructor relies on the
\* parameter's default, the glossary class has no such parameter, and update()
\* of the linker class passes updateIsOnActiveView.
PassViewIsActive ==
    \/ last.op = "constructor"
    \/ variant = "glossary"
    \/ /\ settings.excludeLinksInCurrentLine \/ settings.excludeLinksToOwnNote
       /\ activeView = "this"

\* C11: after every pass run by update(), the pending flag is clear, the
\* cache holds the dictionary of the store with every notified change, and the
\* decorations are those of a scan with that dictionary.
ScanSeesNotifiedChanges ==
    (last.op \in {"update", "callback"} /\ last.ran) =>
        /\ ~pending
        /\ cacheDict = vault
        /\ decorations = buildDecorations(doc, visibleRanges, syntaxNodes, cursor,
                                          vault, Cfg, mappedFile, PassViewIsActive)

\* Witness of C11: an update() pass that found the pending flag set has
\* rebuilt the cache and emitted a span for an entry of the changed store.
ChangedStoreScannedWitness ==
    /\ last.op = "update" /\ last.ran /\ last.notified = 1 /\ last.rebuilt
    /\ cacheDict = vault /\ ~pending
    /\ \E s \in Emitted : s.file = OtherFile

ChainCandidates ==
    <<[id |-> 0, from |-> 0, to |-> 5, file |-> OtherFile, isSubWord |-> FALSE],
      [id |-> 1, from |-> 3, to |-> 10, file |-> OtherFile, isSubWord |-> FALSE],
      [id |-> 2, from |-> 7, to |-> 12, file |-> OtherFile, isSubWord |-> FALSE]>>

\* The raw candidates of a range in the order of the sort.
SortedCandidates(range) == SortAdditions(RawCandidates(range))

\* The example of C13: C survives the resolution of the chain.
ChainKeepsC == \E a \in SeqSet(FilteredAdditions(ChainCandidates)) : a.from = 7

\* C13 as stated: every candidate that overlap resolution drops starts before
\* the end of a candidate that precedes it in the sort order and is kept.
DroppedOnlyByKept ==
    \A r \in RangeSet :
        LET sorted == SortedCandidates(r)
            kept == SeqSet(Resolved(r))
        IN \A j \in 1..Len(sorted) :
             sorted[j] \notin kept =>
                 \E i \in 1..(j - 1) :
                     sorted[i] \in kept /\ sorted[j].from < sorted[i].to

\* The left edge of a span that starts at offset f is inside a word: there is
\* a character before it and that character is no word boundary.
StartsMidWord(f) == f > 0 /\ doc[f] \notin BoundaryChars

\* C14 as stated: the isSubWord flag of a span is true exactly when the left
\* edge of the span is not a word boundary, whatever follows the span.
SubWordFlagIsLeftEdge ==
    \A s \in Emitted : s.isSubWord <=> StartsMidWord(s.from)

\* An entry of the dictionary is the text of the window of range r from offset
\* f to the window's end.
SuffixEntry(r, f) ==
    /\ r.from <= f /\ f < r.to
    /\ \E e \in cacheDict : e.text = Slice(doc, f, r.to)
CandidateAt(r, f, t) == \E a \in SeqSet(RawCandidates(r)) : a.from = f /\ a.to = t

\* C15 as stated: in both matching modes, every dictionary entry that occurs
\* as a suffix of a text window is a raw candidate of that window.
SuffixEntriesReported ==
    \A r \in RangeSet : \A f \in Offsets :
        SuffixEntry(r, f) => CandidateAt(r, f, r.to)

\* C15 amended: in both matching modes, when entries that do not resolve to
\* the excluded note only occur as suffixes of a text window, the longest of
\* them is a raw candidate of that window (and no shorter one is).
LongestSuffixReported ==
    \A r \in RangeSet : \A f \in Offsets :
        IsMatch(r, f, r.to) =>
            (CandidateAt(r, f, r.to) <=> \A g \in 0..(f - 1) : ~IsMatch(r, g, r.to))

\* Witness of C15: in whole-word mode a window ends inside the document and
\* an entry that is a suffix of the window is a raw candidate.
SuffixFlushWitness ==
    /\ last.ran /\ Cfg.matchOnlyWholeWords
    /\ \E r \in RangeSet : \E f \in Offsets :
         /\ r.to < Len(doc)
         /\ SuffixEntry(r, f) /\ CandidateAt(r, f, r.to)

\* Candidate b of a window supersedes candidate a of the same window: b comes
\* before a in the order of the sort and a starts before b ends.
Supersedes(b, a) ==
    /\ b.id # a.id
    /\ b.from < a.from \/ (b.from = a.from /\ b.to > a.to)
    /\ a.from < b.to

\* An exclusion rule of the pass applies to the span [f, t).
ExcludedSpan(f, t) ==
    \/ \E n \in syntaxNodes : IsExclusionZone(n) /\ Touches([from |-> f, to |-> t], n)
    \/ CursorNearby(cursor, f, t)
    \/ /\ Cfg.excludeLinksInCurrentLine
       /\ f >= LineStart(doc, cursor) /\ t <= LineEnd(doc, cursor)

\* C16: a candidate superseded by an overlapping candidate that the sort puts
\* before it (an earlier start, or the same start and a longer text) is in no
\* emitted span, whatever the exclusion rules do to the superseding candidate.
SupersededNeverEmitted ==
    \A r \in RangeSet :
        LET raw == SeqSet(RawCandidates(r))
        IN \A a \in raw :
             (\E b \in raw : Supersedes(b, a)) => ~EmittedAt(a.from, a.to)

\* Witness of C16: the superseding candidate is removed by an exclusion rule
\* that does not apply to the superseded one, and neither is emitted.
SupersederExcludedWitness ==
    \E r \in RangeSet :
        LET raw == SeqSet(RawCandidates(r))
        IN \E a, b \in raw :
             /\ Supersedes(b, a) /\ b.to - b.from > a.to - a.from
             /\ Kept(r, b.from, b.to)
             /\ ExcludedSpan(b.from, b.to) /\ ~ExcludedSpan(a.from, a.to)
             /\ ~EmittedAt(b.from, b.to) /\ ~EmittedAt(a.from, a.to)

\* The span [f, t) lies entirely within the line that contains the cursor.
InCurrentLine(f, t) == f >= LineStart(doc, cursor) /\ t <= LineEnd(doc, cursor)

\* The current-line rule as the claim states it, for the decorations of the
\* state: with the setting on and the view active no emitted span lies within
\* the cursor's line; otherwise every survivor of overlap resolution that
\* neither the structural rule nor the cursor rule removes is emitted.
CurrentLineRuleHolds ==
    IF Cfg.excludeLinksInCurrentLine /\ activeView = "this"
    THEN \A s \in Emitted : ~InCurrentLine(s.from, s.to)
    ELSE \A r \in RangeSet : \A a \in SeqSet(Resolved(r)) :
           (/\ \A n \in syntaxNodes :
                 IsExclusionZone(n) => ~Touches([from |-> a.from, to |-> a.to], n)
            /\ ~CursorNearby(cursor, a.from, a.to))
               => EmittedAt(a.from, a.to)

\* C17 as stated: after every pass (the constructor's and update()'s) the
\* current-line rule removes every span within the cursor's line when the
\* setting is on and the view is the active view, and removes no span when the
\* setting is off or the view is not the active view.
CurrentLineExclusion == last.ran => CurrentLineRuleHolds

\* The part of C17 that the code keeps: the passes of update().
CurrentLineExclusionInUpdates ==
    (last.ran /\ last.op = "update") => CurrentLineRuleHolds

\* C18: no two raw candidates of one window end at the same offset, and each
\* raw candidate is the match with the smallest start offset (the longest)
\* among the matches that end at its end offset.
OneCandidatePerPosition ==
    \A r \in RangeSet :
        LET raw == SeqSet(RawCandidates(r))
        IN /\ \A a, b \in raw : a.to = b.to => a = b
           /\ \A a \in raw :
                /\ IsMatch(r, a.from, a.to)
                /\ \A g \in 0..(a.from - 1) : ~IsMatch(r, g, a.to)

\* Witness of C18: two matches end at one offset and the raw candidate of that
\* offset is the longer one.
SharedEndWitness ==
    /\ last.ran
    /\ \E r \in RangeSet : \E a \in SeqSet(RawCandidates(r)) :
         \E g \in Offsets : g > a.from /\ IsMatch(r, g, a.to)

\* The units at offsets i and i + 1 of text are a surrogate pair.
PairAt(text, i) ==
    /\ i + 2 <= Len(text)
    /\ text[i + 1] \in HighSurrogates /\ text[i + 2] \in LowSurrogates

\* C19: for every text window the scan makes at most length + 1 iterations:
\* it starts at index 0, each iteration advances the index by the width of its
\* character (2 for a surrogate pair, 1 for any other unit, a lone surrogate
\* included), no iteration starts between the two units of a pair, and the last
\* iteration is the one at index = text.length, of width 1; no raw candidate
\* starts or ends between the two units of a pair of the window.
ScanTerminates ==
    \A r \in RangeSet :
        LET text == Slice(doc, r.from, r.to)
            steps == ScanSteps(text, 0)
            n == Len(steps)
        IN /\ 1 <= n /\ n <= Len(text) + 1
           /\ steps[1].index = 0
           /\ steps[n].index = Len(text) /\ steps[n].width = 1
           /\ \A k \in 1..(n - 1) :
                /\ steps[k].index < Len(text)
                /\ steps[k].width = IF PairAt(text, steps[k].index) THEN 2 ELSE 1
                /\ steps[k + 1].index = steps[k].index + steps[k].width
           /\ \A k \in 1..n :
                steps[k].index > 0 => ~PairAt(text, steps[k].index - 1)
           /\ \A a \in SeqSet(RawCandidates(r)) :
                /\ a.from > r.from => ~PairAt(text, a.from - r.from - 1)
                /\ a.to > r.from => ~PairAt(text, a.to - r.from - 1)

\* Witness of C19: one window holds a surrogate pair, consumed in one
\* iteration and matched as one character, and a lone surrogate.
PairAndLoneSurrogateWitness ==
    /\ last.ran
    /\ \E r \in RangeSet :
         LET text == Slice(doc, r.from, r.to)
             steps == ScanSteps(text, 0)
         IN /\ \E k \in 1..Len(steps) : steps[k].width = 2
            /\ \E k \in 1..(Len(steps) - 1) :
                 /\ steps[k].width = 1
                 /\ text[steps[k].index + 1] \in HighSurrogates \cup LowSurrogates
            /\ \E a \in SeqSet(RawCandidates(r)) :
                 Slice(doc, a.from, a.to) = <<"H", "L">>

\* The step recorded in rec was a call of update(): a view update, or the
\* update manager's callback with a stored view update.
IsUpdateCall(rec) == rec.op = "update" \/ (rec.op = "callback" /\ rec.force)

\* C20: a call of update() with force false, the cursor at lastCursorPos, an
\* unchanged document and viewport and the active file path equal to
\* lastActiveFile changes none of decorations, lastCursorPos, lastActiveFile,
\* the cache and the file mapping; every other call runs updateCache (the
\* dictionary is rebuilt from the store exactly if the pending flag was set or
\* force is true, and the flag is clear afterwards), sets lastActiveFile and
\* leaves the decorations of a scan of the current view; after every call
\* lastCursorPos is the cursor position of the view.
UpdateGating ==
    /\ [](IsUpdateCall(last) =>
            /\ lastCursorPos = cursor
            /\ last.ran =>
                 decorations = buildDecorations(doc, visibleRanges, syntaxNodes, cursor,
                                                cacheDict, Cfg, mappedFile,
                                                PassViewIsActive))
    /\ [][IsUpdateCall(last') =>
            LET quiet == /\ ~last'.force
                         /\ cursor' = lastCursorPos
                         /\ doc' = doc
                         /\ visibleRanges' = visibleRanges
                         /\ ActiveFilePath(activeView') = lastActiveFile
            IN IF quiet
               THEN /\ ~last'.ran
                    /\ UNCHANGED <<decorations, lastCursorPos, lastActiveFile,
                                   cacheDict, pending, mappedFile>>
                    /\ lastViewUpdate' = (variant = "linker")
               ELSE /\ last'.ran
                    /\ ~pending'
                    /\ last'.rebuilt = (pending \/ last'.force)
                    /\ cacheDict' = IF pending \/ last'.force THEN vault ELSE cacheDict
                    /\ lastActiveFile' = IF activeView' = "none" THEN ""
                                         ELSE ActiveFilePath(activeView')
         ]_vars

\* Witness of C20: a view update that changed the syntax tree only did not
\* pass the gate and left decorations that are not those of a scan of the view.
GateClosedWitness ==
    /\ last.op = "update" /\ ~last.ran /\ ~last.force
    /\ lastCursorPos = cursor
    /\ lastActiveFile = ActiveFilePath(activeView)
    /\ decorations # buildDecorations(doc, visibleRanges, syntaxNodes, cursor,
                                      cacheDict, Cfg, mappedFile, PassViewIsActive)

\* Neither the cursor rule nor the current-line rule of the pass applies to the
\* span [f, t).
NoContextualExclusion(f, t) ==
    /\ ~CursorNearby(cursor, f, t)
    /\ ~(PassViewIsActive /\ Cfg.excludeLinksInCurrentLine /\ InCurrentLine(f, t))

\* The span a shares at least one character with an excluded syntax node,
\* both taken as half-open ranges [from, to).
InZoneHalfOpen(a) ==
    \E n \in syntaxNodes : IsExclusionZone(n) /\ SharesChar(a, n)

\* The span a shares no character with an excluded syntax node and ends where
\* one starts or starts where one ends.
AbutsZone(a) ==
    /\ ~InZoneHalfOpen(a)
    /\ \E n \in syntaxNodes : IsExclusionZone(n) /\ (a.to = n.from \/ a.from = n.to)

\* C21 as stated: structural zones are half-open: a survivor of overlap
\* resolution that no contextual rule removes is dropped exactly when it
\* shares a character with an excluded syntax node; one that only abuts a zone
\* is emitted.
StructuralZonesHalfOpen ==
    \A r \in RangeSet : \A a \in SeqSet(Resolved(r)) :
        NoContextualExclusion(a.from, a.to) =>
            (EmittedAt(a.from, a.to) <=> ~InZoneHalfOpen(a))

\* What the code does instead (C21): every such survivor that abuts a zone is
\* dropped.
AbuttingSpanDropped ==
    \A r \in RangeSet : \A a \in SeqSet(Resolved(r)) :
        (NoContextualExclusion(a.from, a.to) /\ AbutsZone(a)) =>
            ~EmittedAt(a.from, a.to)

====
